---- MODULE Spec2Model ----
(***************************************************************************)
(* butido: the package tree (src/package/tree.rs), the staging store       *)
(* (src/filestore/staging.rs), the construction of a RunnableJob           *)
(* (src/job/runnable.rs), the dispatcher, the query subcommands of `db`     *)
(* (src/commands/db.rs) and the `endpoint` subcommands ping and containers  *)
(* prune (src/commands/endpoint.rs) as state machines.                      *)
(*                                                                         *)
(* A Package is the pair <<name, version>>; a Tree (BTreeMap<Package,Tree>) *)
(* is the prefix-closed set of its root-to-node paths, each path a          *)
(* non-empty sequence of Packages: the keys of the map are the first        *)
(* elements of the paths, the value stored under key k is the set of the    *)
(* tails of the paths that start with k.                                    *)
(***************************************************************************)
EXTENDS Integers, Sequences, FiniteSets, TLC

VARIABLES repo,     \* Repository: Package -> its dependency list
          tree,     \* the Tree add_package is called on
          last,     \* the last add_package call: package, outcome, tree before
          calls,    \* number of add_package calls made so far
          index,    \* StagingStore: the paths of the in-memory index
          disk,     \* the file system: path -> "none" | "file" | "dir"
          lastW,    \* the last write_files_from_tar_stream call
          stores,   \* MergedStores: the artifacts of staging and of release
          pkgs,     \* package name -> its build and runtime dependencies
          rjob,     \* the RunnableJob::build_from_job call
          pool,     \* Dispatcher: the endpoints and the in-flight bounds
          disp,     \* Dispatcher: the jobs of one submit
          db,       \* the database: submits, jobs, artifacts, releases
          lastQ,    \* the last `db` subcommand: arguments and output
          ends,     \* the selected endpoints: their containers
          ecmd      \* the running `endpoint` subcommand

treeVars == <<repo, tree, last, calls>>

stagingVars == <<index, disk, lastW>>

jobVars == <<stores, pkgs, rjob>>

dispVars == <<pool, disp>>

dbVars == <<db, lastQ>>

epVars == <<ends, ecmd>>

vars == <<repo, tree, last, calls, index, disk, lastW, stores, pkgs, rjob, pool, disp,
          db, lastQ, ends, ecmd>>

----------------------------------------------------------------------------
(* Bounds of the model *)

NumNames == 2

NumVersions == 2

MaxRepoDeps == 3

MaxCalls == 3

Names == 1..NumNames

Versions == 1..NumVersions

Packages == Names \X Versions

name(p) == p[1]

version(p) == p[2]

\* Ord of Package: by name, then by version (the order of BTreeMap keys)
PkgLess(p, q) == name(p) < name(q) \/ (name(p) = name(q) /\ version(p) < version(q))

\* The elements of a finite set of packages in ascending key order
RECURSIVE SortedPkgs(_)
SortedPkgs(S) ==
    IF S = {} THEN <<>>
    ELSE LET m == CHOOSE x \in S : \A y \in S \ {x} : PkgLess(x, y)
         IN <<m>> \o SortedPkgs(S \ {m})

\* A version constraint is the set of versions its matcher accepts
Constraints == SUBSET Versions \ {{}}

\* A dependency: (name, constraint)
Deps == Names \X Constraints

----------------------------------------------------------------------------
(* Repository *)

\* Package::get_all_dependencies: build and runtime dependencies merged into
\* one list; ok = FALSE when the dependencies of the package cannot be read
get_all_dependencies(p) == repo[p]

NoDeps == [ok |-> TRUE, deps |-> <<>>]

Unreadable == [ok |-> FALSE, deps |-> <<>>]

\* The repositories with at most k dependency declarations in total (an
\* unreadable dependency list counts as one); every package of Packages is
\* in the repository
RECURSIVE Repositories(_)
Repositories(k) ==
    IF k = 0 THEN {[p \in Packages |-> NoDeps]}
    ELSE LET R == Repositories(k - 1)
         IN R \cup {[r EXCEPT ![p].deps = Append(@, d)] :
                       <<r, p, d>> \in {x \in R \X Packages \X Deps : x[1][x[2]].ok}}
              \cup {[r EXCEPT ![p] = Unreadable] :
                       <<r, p>> \in {x \in R \X Packages : x[1][x[2]] = NoDeps}}

\* Repository::find_with_version_constraint: the packages of that name whose
\* version satisfies the constraint, in key order
find_with_version_constraint(n, constr) ==
    SortedPkgs({p \in DOMAIN repo : name(p) = n /\ version(p) \in constr})

----------------------------------------------------------------------------
(* Tree: output operations *)

EmptyTree == {}

\* Tree::packages: the keys of this level only
packages(t) == {path[1] : path \in t}

\* the subtree stored under key k
SubtreeOf(t, k) == {Tail(path) : path \in {q \in t : q[1] = k /\ Len(q) > 1}}

\* Tree::dependencies: the child subtrees, in key order
dependencies(t) ==
    LET ks == SortedPkgs(packages(t))
    IN [i \in 1..Len(ks) |-> SubtreeOf(t, ks[i])]

\* has_package without the descent into the subtrees
has_package_top_level(t, p) == \E k \in packages(t) : name(k) = name(p)

\* Tree::has_package: a key of this level has p's name, or a subtree has p
RECURSIVE has_package(_, _)
has_package(t, p) ==
    \/ \E k \in packages(t) : name(k) = name(p)
    \/ \E k \in packages(t) : has_package(SubtreeOf(t, k), p)

\* Tree::package_depth_where, find_package_depth: cmp is the set of packages
\* the compare function accepts; Option<usize> is {} for None, {d} for Some(d)
RECURSIVE FirstSome(_, _, _, _)
RECURSIVE find_package_depth(_, _, _)
find_package_depth(t, current, cmp) ==
    IF packages(t) \cap cmp # {} THEN {current}
    ELSE FirstSome(dependencies(t), 1, current + 1, cmp)

\* .filter_map(..).next(): the first subtree, in key order, that yields Some
FirstSome(subs, i, current, cmp) ==
    IF i > Len(subs) THEN {}
    ELSE LET r == find_package_depth(subs[i], current, cmp)
         IN IF r # {} THEN r ELSE FirstSome(subs, i + 1, current, cmp)

package_depth_where(t, cmp) == find_package_depth(t, 0, cmp)

\* Tree::package_depth: compares whole packages (k == p)
package_depth(t, p) == package_depth_where(t, {p})

----------------------------------------------------------------------------
(* Tree::add_package *)

\* an insert that stores an empty subtree under k
Insert_without_subtree(t, k, sub) == {path \in t : path[1] # k} \cup {<<k>>}

\* BTreeMap::insert(k, sub): the value under k is replaced
Insert(t, k, sub) ==
    {path \in t : path[1] # k} \cup {<<k>>} \cup {<<k>> \o s : s \in sub}

\* The macro mk_add_package_tree for package p: the outcome st and, when ok,
\* the subtree built for p. root is the tree add_package was called on; it is
\* not changed before the outermost insert. stack holds the packages of the
\* add_package_tree calls that are in progress: a call for a package that is
\* already on the stack repeats itself without end (same package, same
\* repository, same root), so the recursion never returns and the outcome is
\* "diverges" (the process ends by stack exhaustion).
RECURSIVE mk_add_package_tree(_, _, _)
RECURSIVE DepLoop(_, _, _, _, _)
RECURSIVE PackLoop(_, _, _, _, _, _, _)
mk_add_package_tree(p, root, stack) ==
    IF ~get_all_dependencies(p).ok
    THEN [st |-> "deperror", sub |-> EmptyTree]
    ELSE DepLoop(get_all_dependencies(p).deps, 1, root, stack, EmptyTree)

\* the outer map over the dependencies, collected into Result<Vec<()>>
DepLoop(deps, i, root, stack, subtree) ==
    IF i > Len(deps) THEN [st |-> "ok", sub |-> subtree]
    ELSE LET pack == find_with_version_constraint(deps[i][1], deps[i][2])
         IN IF \E j \in 1..Len(pack) : has_package(root, pack[j])
            THEN [st |-> "duplicate", sub |-> EmptyTree]
            ELSE PackLoop(pack, 1, deps, i, root, stack, subtree)

\* the inner map over the found packages: add_package_tree(&mut subtree, p, ..)
PackLoop(pack, j, deps, i, root, stack, subtree) ==
    IF j > Len(pack) THEN DepLoop(deps, i + 1, root, stack, subtree)
    ELSE IF pack[j] \in stack THEN [st |-> "diverges", sub |-> EmptyTree]
    ELSE LET r == mk_add_package_tree(pack[j], root, stack \cup {pack[j]})
         IN IF r.st # "ok" THEN r
            ELSE PackLoop(pack, j + 1, deps, i, root, stack,
                          Insert(subtree, pack[j], r.sub))

NoCall == [p |-> <<0, 0>>, st |-> "none", before |-> EmptyTree]

\* an add_package that inserts the package before its subtree is complete
add_package_inserting_first(p) ==
    /\ calls < MaxCalls
    /\ last.st # "diverges"
    /\ LET r == mk_add_package_tree(p, tree, {p})
       IN /\ tree' = Insert(tree, p, r.sub)
          /\ last' = [p |-> p, st |-> r.st, before |-> tree]
    /\ calls' = calls + 1
    /\ UNCHANGED repo
    /\ UNCHANGED stagingVars
    /\ UNCHANGED jobVars
    /\ UNCHANGED dispVars
    /\ UNCHANGED <<dbVars, epVars>>

\* Tree::add_package(p, repo, ..) on the tree
add_package(p) ==
    /\ calls < MaxCalls
    /\ last.st # "diverges"
    /\ LET r == mk_add_package_tree(p, tree, {p})
       IN /\ tree' = IF r.st = "ok" THEN Insert(tree, p, r.sub) ELSE tree
          /\ last' = [p |-> p, st |-> r.st, before |-> tree]
    /\ calls' = calls + 1
    /\ UNCHANGED repo
    /\ UNCHANGED stagingVars
    /\ UNCHANGED jobVars
    /\ UNCHANGED dispVars
    /\ UNCHANGED <<dbVars, epVars>>

----------------------------------------------------------------------------
(* StagingStore *)

MaxEntries == 2

\* Paths of TAR entries, relative to the store root. "../x" is the path whose
\* normalized form leaves the root; "notes" is a file name that is not the
\* name of an artifact; "out" is a directory.
EntryPaths == {"a-1.pkg", "b-2.pkg", "notes", "out", "../x"}

Escapes(path) == path = "../x"

IsArtifactName(path) == path \in {"a-1.pkg", "b-2.pkg"}

\* a TAR entry: its path and whether it is a directory or a regular file
Entries == {[path |-> p, kind |-> IF p = "out" THEN "dir" ELSE "file"] : p \in EntryPaths}

\* the archives of at most n entries
RECURSIVE Archives(_)
Archives(n) ==
    IF n = 0 THEN {<<>>}
    ELSE LET A == Archives(n - 1)
         IN A \cup {Append(a, e) : <<a, e>> \in A \X Entries}

\* the first pass over the archive (archive.entries(), ent.path()): the
\* paths of all entries, in archive order
RECURSIVE Outputs(_)
Outputs(archive) ==
    IF archive = <<>> THEN <<>>
    ELSE <<archive[1].path>> \o Outputs(Tail(archive))

\* tar::Archive::unpack(dest), entry by entry. An entry whose path leaves
\* dest is skipped by the tar library; failAt is the entry at which the file
\* system reports an error (0: none). What was unpacked before an error
\* stays on disk.
RECURSIVE Unpack(_, _, _, _)
Unpack(archive, i, failAt, d) ==
    IF i > Len(archive) THEN [ok |-> TRUE, disk |-> d]
    ELSE LET e == archive[i]
         IN IF Escapes(e.path) THEN Unpack(archive, i + 1, failAt, d)
            ELSE IF i = failAt THEN [ok |-> FALSE, disk |-> d]
            ELSE Unpack(archive, i + 1, failAt, [d EXCEPT ![e.path] = e.kind])

\* FileStoreImpl::load_from_path(fullpath): whether the path can be loaded
\* into the index idx. The store takes regular files under its root that
\* name an artifact, and rejects a path that is indexed already.
CanLoad(path, idx, d) ==
    /\ ~Escapes(path)
    /\ d[path] = "file"
    /\ IsArtifactName(path)
    /\ path \notin idx

\* a loop that passes over a failing load instead of ending with its error
RECURSIVE LoadLoop_skipping_failed(_, _, _, _, _)
LoadLoop_skipping_failed(outputs, i, idx, d, ret) ==
    IF i > Len(outputs) THEN [ok |-> TRUE, index |-> idx, ret |-> ret]
    ELSE IF d[outputs[i]] = "dir" \/ ~CanLoad(outputs[i], idx, d)
    THEN LoadLoop_skipping_failed(outputs, i + 1, idx, d, ret)
    ELSE LoadLoop_skipping_failed(outputs, i + 1, idx \cup {outputs[i]}, d,
                                  Append(ret, outputs[i]))

\* a loop that returns the paths of directories as if they had been loaded
RECURSIVE LoadLoop_returning_dirs(_, _, _, _, _)
LoadLoop_returning_dirs(outputs, i, idx, d, ret) ==
    IF i > Len(outputs) THEN [ok |-> TRUE, index |-> idx, ret |-> ret]
    ELSE IF d[outputs[i]] = "dir"
    THEN LoadLoop_returning_dirs(outputs, i + 1, idx, d, Append(ret, outputs[i]))
    ELSE IF ~CanLoad(outputs[i], idx, d)
    THEN [ok |-> FALSE, index |-> idx, ret |-> <<>>]
    ELSE LoadLoop_returning_dirs(outputs, i + 1, idx \cup {outputs[i]}, d,
                                 Append(ret, outputs[i]))

\* the filter_map over the outputs, collected into Result<Vec<PathBuf>>:
\* a path that is a directory on disk is dropped, every other path is loaded
\* into the index; the first failing load ends the loop, what was loaded
\* before it stays in the index
RECURSIVE LoadLoop(_, _, _, _, _)
LoadLoop(outputs, i, idx, d, ret) ==
    IF i > Len(outputs) THEN [ok |-> TRUE, index |-> idx, ret |-> ret]
    ELSE IF d[outputs[i]] = "dir"
    THEN LoadLoop(outputs, i + 1, idx, d, ret)
    ELSE IF ~CanLoad(outputs[i], idx, d)
    THEN [ok |-> FALSE, index |-> idx, ret |-> <<>>]
    ELSE LoadLoop(outputs, i + 1, idx \cup {outputs[i]}, d,
                  Append(ret, outputs[i]))

\* no call made yet. Of a call the model keeps what the stream delivered,
\* whether the archive held an entry that leaves the root, whether it held
\* a path that was indexed already, the result and the returned paths, and
\* the index and the disk before the call.
NoWrite == [stream |-> "none", escaping |-> FALSE, reingest |-> FALSE,
            st |-> "none", ret |-> <<>>,
            indexBefore |-> {}, diskBefore |-> [p \in EntryPaths |-> "none"]]

\* StagingStore::write_files_from_tar_stream(stream). stream is what the
\* byte stream delivers: "error" (a chunk is Err), "malformed" (the bytes are
\* no TAR archive) or "tar" (the bytes of archive).
write_files_from_tar_stream(stream, archive, failAt) ==
    LET unpacked == Unpack(archive, 1, failAt, disk)
        loaded == LoadLoop(Outputs(archive), 1, index, unpacked.disk, <<>>)
        st == IF stream # "tar" \/ ~unpacked.ok \/ ~loaded.ok THEN "err" ELSE "ok"
    IN /\ disk' = IF stream = "tar" THEN unpacked.disk ELSE disk
       /\ index' = IF stream = "tar" /\ unpacked.ok THEN loaded.index ELSE index
       /\ lastW' = [stream |-> stream,
                    escaping |-> \E i \in 1..Len(archive) : Escapes(archive[i].path),
                    reingest |-> \E i \in 1..Len(archive) : archive[i].path \in index,
                    st |-> st,
                    ret |-> IF st = "ok" THEN loaded.ret ELSE <<>>,
                    indexBefore |-> index, diskBefore |-> disk]
       /\ UNCHANGED treeVars
       /\ UNCHANGED jobVars
       /\ UNCHANGED dispVars
       /\ UNCHANGED <<dbVars, epVars>>

----------------------------------------------------------------------------
(* RunnableJob::build_from_job (src/job/runnable.rs) *)

MaxArtifacts == 2

MaxJobDeps == 2

\* the packages jobs are built for, and the packages they depend on; a
\* dependency names a package, its version is the one the artifacts carry
JobPackages == {"a", "b", "c"}

JobDeps == {"b", "c"}

\* the artifact files of the stores: two files are artifacts of b
ArtifactPaths == {"b-1.pkg", "b-1.tar", "c-1.pkg"}

ArtifactName(path) == IF path = "c-1.pkg" THEN "c" ELSE "b"

ArtifactVersion(path) == 1

\* dep.parse_as_name_and_version()
parse_as_name_and_version(dep) == <<dep, 1>>

\* Ord of Artifact: artifacts compare by their path
PathRank(path) == CASE path = "b-1.pkg" -> 1 [] path = "b-1.tar" -> 2 [] path = "c-1.pkg" -> 3

ArtifactLess(x, y) == PathRank(x.path) < PathRank(y.path)

\* the sequences of at most k distinct paths: the index of one store, in
\* insertion order
RECURSIVE DistinctSeqs(_)
DistinctSeqs(k) ==
    IF k = 0 THEN {<<>>}
    ELSE LET S == DistinctSeqs(k - 1)
         IN S \cup {Append(y[1], y[2]) : y \in {z \in S \X ArtifactPaths :
                                        \A i \in 1..Len(z[1]) : z[1][i] # z[2]}}

\* staging and release stores that hold at most k artifacts together
StoreStates(k) ==
    {st \in [staging : DistinctSeqs(k), release : DistinctSeqs(k)] :
        Len(st.staging) + Len(st.release) <= k}

NoArtifacts == [staging |-> <<>>, release |-> <<>>]

NoPackageDeps == [p \in JobPackages |-> [build |-> <<>>, runtime |-> <<>>]]

\* the package tables with at most k declared dependencies in all
RECURSIVE PackageTables(_)
PackageTables(k) ==
    IF k = 0 THEN {NoPackageDeps}
    ELSE LET T == PackageTables(k - 1)
         IN T \cup {[y[1] EXCEPT ![y[2]].build = Append(@, y[3])] :
                        y \in T \X JobPackages \X JobDeps}
              \cup {[y[1] EXCEPT ![y[2]].runtime = Append(@, y[3])] :
                        y \in T \X JobPackages \X JobDeps}

\* the artifacts of one store that match name and version, in insertion order
RECURSIVE MatchesIn(_, _, _)
MatchesIn(seq, store, nv) ==
    IF seq = <<>> THEN <<>>
    ELSE LET rest == MatchesIn(Tail(seq), store, nv)
         IN IF ArtifactName(Head(seq)) = nv[1] /\ ArtifactVersion(Head(seq)) = nv[2]
            THEN <<[path |-> Head(seq), store |-> store]>> \o rest
            ELSE rest

\* MergedStores::get_artifact_by_name_and_version: the matches of staging,
\* then the matches of release
get_artifact_by_name_and_version(nv) ==
    MatchesIn(stores.staging, "staging", nv) \o MatchesIn(stores.release, "release", nv)

\* x put into the sorted sequence s, behind the elements that are not
\* greater than x
RECURSIVE InsertSorted(_, _)
InsertSorted(s, x) ==
    IF s = <<>> THEN <<x>>
    ELSE IF ArtifactLess(x, Head(s)) THEN <<x>> \o s
    ELSE <<Head(s)>> \o InsertSorted(Tail(s), x)

\* a sort that is not stable: equal artifacts end up in reverse order
RECURSIVE SortArtifacts_unstable(_)
SortArtifacts_unstable(a) ==
    IF a = <<>> THEN <<>>
    ELSE InsertSorted(SortArtifacts_unstable(Tail(a)), Head(a))

\* a.sort(): the stable sort of the slice, equal artifacts keep their order
RECURSIVE SortArtifacts(_)
SortArtifacts(a) ==
    IF a = <<>> THEN <<>>
    ELSE InsertSorted(SortArtifacts(SubSeq(a, 1, Len(a) - 1)), a[Len(a)])

NoArtifact == [path |-> "none", store |-> "none"]

\* a build_resource that takes the first artifact the stores return
build_resource_unsorted(dep, lookupOk) ==
    LET a == get_artifact_by_name_and_version(parse_as_name_and_version(dep))
    IN IF ~lookupOk THEN [st |-> "err", err |-> "lookup", art |-> NoArtifact, warn |-> FALSE]
       ELSE IF a = <<>>
       THEN [st |-> "err", err |-> "missing", art |-> NoArtifact, warn |-> FALSE]
       ELSE [st |-> "ok", err |-> "none", art |-> a[1], warn |-> Len(a) > 1]

\* RunnableJob::build_resource(dep, merged_stores). lookupOk: the dependency
\* parses and the stores answer (the two ? of the function); err "missing"
\* is the error "Cannot find dependency"; warn: the three warn! lines
build_resource(dep, lookupOk) ==
    LET a == get_artifact_by_name_and_version(parse_as_name_and_version(dep))
    IN IF ~lookupOk THEN [st |-> "err", err |-> "lookup", art |-> NoArtifact, warn |-> FALSE]
       ELSE IF a = <<>>
       THEN [st |-> "err", err |-> "missing", art |-> NoArtifact, warn |-> FALSE]
       ELSE [st |-> "ok", err |-> "none", art |-> SortArtifacts(a)[1], warn |-> Len(a) > 1]

\* no build_from_job call made yet. pending: the build_resource futures of
\* the two FuturesUnordered, <<kind, i>> for dependency i of that kind;
\* build, runtime: what the two collects gathered so far, each JobResource
\* with the future it comes from; buildErr, rtErr: the error that ended a
\* collect; order: the futures in the order they completed; warned: the
\* dependencies a warning was logged for; st, err, resources: the result.
NoJob == [pkg |-> "none", pc |-> "none", pending |-> {},
          build |-> <<>>, runtime |-> <<>>, buildErr |-> "none", rtErr |-> "none",
          order |-> <<>>, warned |-> {}, st |-> "none", err |-> "none",
          resources |-> <<>>]

\* build_from_job up to the join: the script is built (a failure returns its
\* error), then one build_resource future per build dependency and per
\* runtime dependency is created
StartJob(pkg, scriptOk) ==
    /\ rjob.pc = "none"
    /\ rjob' = IF ~scriptOk
               THEN [rjob EXCEPT !.pkg = pkg, !.pc = "done", !.st = "err", !.err = "script"]
               ELSE [rjob EXCEPT !.pkg = pkg, !.pc = "resolving",
                        !.pending = {<<"build", i>> : i \in 1..Len(pkgs[pkg].build)}
                            \cup {<<"runtime", i>> : i \in 1..Len(pkgs[pkg].runtime)}]
    /\ UNCHANGED <<stores, pkgs>>
    /\ UNCHANGED treeVars
    /\ UNCHANGED stagingVars
    /\ UNCHANGED dispVars
    /\ UNCHANGED <<dbVars, epVars>>

ErrOf(j, kind) == IF kind = "build" THEN j.buildErr ELSE j.rtErr

\* one build_resource future completes and its FuturesUnordered yields the
\* result to the collect::<Result<Vec<JobResource>>>(), which appends an Ok
\* and ends with the first Err; an ended collect polls no future any more
CompleteResource(f, lookupOk) ==
    /\ rjob.pc = "resolving"
    /\ f \in rjob.pending
    /\ ErrOf(rjob, f[1]) = "none"
    /\ LET dep == pkgs[rjob.pkg][f[1]][f[2]]
           r == build_resource(dep, lookupOk)
           res == [art |-> r.art, kind |-> f[1], i |-> f[2]]
       IN rjob' = [rjob EXCEPT
                      !.pending = @ \ {f},
                      !.order = Append(@, f),
                      !.warned = IF r.warn THEN @ \cup {dep} ELSE @,
                      !.build = IF f[1] = "build" /\ r.st = "ok" THEN Append(@, res) ELSE @,
                      !.runtime = IF f[1] = "runtime" /\ r.st = "ok" THEN Append(@, res) ELSE @,
                      !.buildErr = IF f[1] = "build" THEN r.err ELSE @,
                      !.rtErr = IF f[1] = "runtime" THEN r.err ELSE @]
    /\ UNCHANGED <<stores, pkgs>>
    /\ UNCHANGED treeVars
    /\ UNCHANGED stagingVars
    /\ UNCHANGED dispVars
    /\ UNCHANGED <<dbVars, epVars>>

Collected(j, kind) ==
    ErrOf(j, kind) # "none" \/ \A f \in j.pending : f[1] # kind

\* resources with the runtime resources first
Resources_runtime_first(build, rt) == rt \o build

\* resources of the build dependencies only
Resources_build_only(build, rt) == build

\* build.append(&mut rt); build
Resources(build, rt) == build \o rt

\* a join that does not look at the result of the runtime collect
JoinResult_ignoring_rt(j) ==
    IF j.buildErr # "none" THEN [st |-> "err", err |-> j.buildErr, resources |-> <<>>]
    ELSE [st |-> "ok", err |-> "none", resources |-> Resources(j.build, j.runtime)]

\* (build?, rt?) and the RunnableJob: the error of the build collect, else
\* the error of the runtime collect, else the job with its resources
JoinResult(j) ==
    IF j.buildErr # "none" THEN [st |-> "err", err |-> j.buildErr, resources |-> <<>>]
    ELSE IF j.rtErr # "none" THEN [st |-> "err", err |-> j.rtErr, resources |-> <<>>]
    ELSE [st |-> "ok", err |-> "none", resources |-> Resources(j.build, j.runtime)]

\* tokio::join!(build, rt) returns when both collects have ended;
\* build_from_job returns
JoinJob ==
    /\ rjob.pc = "resolving"
    /\ Collected(rjob, "build") /\ Collected(rjob, "runtime")
    /\ LET r == JoinResult(rjob)
       IN rjob' = [rjob EXCEPT !.pc = "done", !.st = r.st, !.err = r.err,
                               !.resources = r.resources]
    /\ UNCHANGED <<stores, pkgs>>
    /\ UNCHANGED treeVars
    /\ UNCHANGED stagingVars
    /\ UNCHANGED dispVars
    /\ UNCHANGED <<dbVars, epVars>>

----------------------------------------------------------------------------
(* Dispatcher: the jobs of one submit, scheduled over the endpoints *)

MaxInFlight == 2

MaxPerEndpoint == 2

MaxRetries == 1

\* the endpoints, in declared order
Endpoints == 1..2

JobStates == {"Pending", "Ready", "Dispatched", "Running",
              "Succeeded", "Errored", "Unknown", "Skipped", "Cancelled"}

Terminal == {"Succeeded", "Errored", "Unknown", "Skipped", "Cancelled"}

\* the package whose build is submitted
RootJob == "a"

\* the children of a node of the tree: the packages it depends on
ChildrenIn(t, j) ==
    {t[j].build[i] : i \in 1..Len(t[j].build)} \cup
    {t[j].runtime[i] : i \in 1..Len(t[j].runtime)}

\* the packages reachable from the packages of S in at least one step
RECURSIVE ReachIn(_, _, _)
ReachIn(t, S, n) ==
    IF n = 0 THEN {}
    ELSE LET C == UNION {ChildrenIn(t, j) : j \in S}
         IN C \cup ReachIn(t, C, n - 1)

DescendantsIn(t, j) == ReachIn(t, {j}, Cardinality(JobPackages))

\* a dependency graph a tree can be built from
Acyclic(t) == \A j \in JobPackages : j \notin DescendantsIn(t, j)

Children(j) == ChildrenIn(pkgs, j)

\* the jobs of the submit: one per node of the tree of the root
Jobs == {RootJob} \cup DescendantsIn(pkgs, RootJob)

Ancestors(j) == {k \in Jobs : j \in DescendantsIn(pkgs, k)}

\* no endpoint configured, nothing submitted
NoPool == [declares |-> [e \in Endpoints |-> FALSE], perEndpoint |-> 1, global |-> 1]

\* a submit before any scheduling: every job Pending, on no endpoint (0);
\* retries: failed dispatch attempts; staged: the jobs whose artifacts are in
\* the staging store; dispatched: the jobs that were ever dispatched;
\* received: the jobs whose TAR the dispatcher has received; cancelled: the
\* cancellation signal of the submit; finalized: the submit is recorded
NoSubmit == [state |-> [j \in JobPackages |-> "Pending"],
             endpoint |-> [j \in JobPackages |-> 0],
             retries |-> [j \in JobPackages |-> 0],
             staged |-> {}, dispatched |-> {}, received |-> {},
             cancelled |-> FALSE, finalized |-> FALSE]

InFlight == {j \in Jobs : disp.state[j] \in {"Dispatched", "Running"}}

Load(e) == Cardinality({j \in InFlight : disp.endpoint[j] = e})

\* the endpoints that declare the image of the submit and are below their
\* budget
Qualifying == {e \in Endpoints : pool.declares[e] /\ Load(e) < pool.perEndpoint}

\* the qualifying endpoint with the fewest in-flight jobs, the first declared
\* among equals
ChooseEndpoint ==
    CHOOSE e \in Qualifying :
        \A f \in Qualifying : Load(e) < Load(f) \/ (Load(e) = Load(f) /\ e <= f)

\* every ancestor of j that has not ended is marked Skipped
MarkSkipped(st, j) ==
    [k \in JobPackages |->
        IF k \in Ancestors(j) /\ st[k] \notin Terminal THEN "Skipped" ELSE st[k]]

\* a job becomes eligible without a look at its children
MakeReady_unchecked(j) ==
    /\ j \in Jobs
    /\ disp.state[j] = "Pending"
    /\ disp' = [disp EXCEPT !.state[j] = "Ready"]
    /\ UNCHANGED pool
    /\ UNCHANGED <<treeVars, stagingVars, jobVars, dbVars, epVars>>

\* topological scheduling: a job becomes eligible when the artifacts of all
\* its children are in the merged store
MakeReady(j) ==
    /\ j \in Jobs
    /\ disp.state[j] = "Pending"
    /\ \A c \in Children(j) : c \in disp.staged
    /\ disp' = [disp EXCEPT !.state[j] = "Ready"]
    /\ UNCHANGED pool
    /\ UNCHANGED <<treeVars, stagingVars, jobVars, dbVars, epVars>>

\* an assignment that does not look at the budget of the endpoint
Dispatch_over_budget(j) ==
    /\ disp.state[j] = "Ready"
    /\ Cardinality(InFlight) < pool.global
    /\ \E e \in Endpoints :
          /\ pool.declares[e]
          /\ disp' = [disp EXCEPT !.state[j] = "Dispatched", !.endpoint[j] = e,
                                  !.dispatched = @ \cup {j}]
    /\ UNCHANGED pool
    /\ UNCHANGED <<treeVars, stagingVars, jobVars, dbVars, epVars>>

\* endpoint assignment under backpressure: an eligible job is paired with the
\* chosen endpoint while the global in-flight bound is not reached
Dispatch(j) ==
    /\ disp.state[j] = "Ready"
    /\ ~disp.cancelled
    /\ Cardinality(InFlight) < pool.global
    /\ Qualifying # {}
    /\ disp' = [disp EXCEPT !.state[j] = "Dispatched", !.endpoint[j] = ChooseEndpoint,
                            !.dispatched = @ \cup {j}]
    /\ UNCHANGED pool
    /\ UNCHANGED <<treeVars, stagingVars, jobVars, dbVars, epVars>>

\* a failed dispatch that puts the job back among the eligible ones
DispatchFails_back_to_ready(j) ==
    /\ disp.state[j] = "Dispatched"
    /\ disp' = IF disp.retries[j] < MaxRetries
               THEN [disp EXCEPT !.retries[j] = @ + 1, !.state[j] = "Ready"]
               ELSE [disp EXCEPT !.state = MarkSkipped([@ EXCEPT ![j] = "Errored"], j)]
    /\ UNCHANGED pool
    /\ UNCHANGED <<treeVars, stagingVars, jobVars, dbVars, epVars>>

\* the dispatch to the endpoint fails: it is retried, and after MaxRetries
\* retries the job is reported as Errored
DispatchFails(j) ==
    /\ disp.state[j] = "Dispatched"
    /\ disp' = IF disp.retries[j] < MaxRetries
               THEN [disp EXCEPT !.retries[j] = @ + 1]
               ELSE [disp EXCEPT !.state = MarkSkipped([@ EXCEPT ![j] = "Errored"], j)]
    /\ UNCHANGED pool
    /\ UNCHANGED <<treeVars, stagingVars, jobVars, dbVars, epVars>>

\* the container of the job is created and started
StartContainer(j) ==
    /\ disp.state[j] = "Dispatched"
    /\ disp' = [disp EXCEPT !.state[j] = "Running"]
    /\ UNCHANGED pool
    /\ UNCHANGED <<treeVars, stagingVars, jobVars, dbVars, epVars>>

\* an exit after which the ancestors of a failed job stay as they are
ContainerExit_without_skip(j, verdict) ==
    /\ disp.state[j] = "Running"
    /\ disp' = [disp EXCEPT
                   !.state[j] = verdict,
                   !.staged = IF verdict = "Succeeded" THEN @ \cup {j} ELSE @]
    /\ UNCHANGED pool
    /\ UNCHANGED <<treeVars, stagingVars, jobVars, dbVars, epVars>>

\* the container exits: the artifacts are ingested into staging, the log is
\* parsed to the verdict and completion is signalled, in one step as seen by
\* the other jobs. A build that succeeded delivers its artifact, a failed one
\* delivers none; Errored fails the subtree above the job.
ContainerExit(j, verdict) ==
    /\ disp.state[j] = "Running"
    /\ verdict # "Succeeded" => j \notin disp.received
    /\ disp' = [disp EXCEPT
                   !.state = IF verdict = "Errored"
                             THEN MarkSkipped([@ EXCEPT ![j] = verdict], j)
                             ELSE [@ EXCEPT ![j] = verdict],
                   !.staged = IF verdict = "Succeeded" THEN @ \cup {j} ELSE @]
    /\ UNCHANGED pool
    /\ UNCHANGED <<treeVars, stagingVars, jobVars, dbVars, epVars>>

\* the files the container produced arrive as a TAR while the job runs
ReceiveTar(j) ==
    /\ disp.state[j] = "Running"
    /\ j \notin disp.received
    /\ disp' = [disp EXCEPT !.received = @ \cup {j}]
    /\ UNCHANGED pool
    /\ UNCHANGED <<treeVars, stagingVars, jobVars, dbVars, epVars>>

\* the cancellation signal of the submit is tripped
Cancel ==
    /\ ~disp.cancelled
    /\ ~disp.finalized
    /\ disp' = [disp EXCEPT !.cancelled = TRUE]
    /\ UNCHANGED pool
    /\ UNCHANGED <<treeVars, stagingVars, jobVars, dbVars, epVars>>

\* a stop that throws away the TAR the job has delivered
StopJob_dropping_tar(j) ==
    /\ disp.cancelled
    /\ disp.state[j] \in {"Dispatched", "Running"}
    /\ disp' = [disp EXCEPT !.state = MarkSkipped([@ EXCEPT ![j] = "Cancelled"], j)]
    /\ UNCHANGED pool
    /\ UNCHANGED <<treeVars, stagingVars, jobVars, dbVars, epVars>>

\* after the signal an in-flight job is asked to stop at its endpoint: it
\* ends as Cancelled, a TAR already received from it is still ingested, and
\* the jobs above it are Skipped
StopJob(j) ==
    /\ disp.cancelled
    /\ disp.state[j] \in {"Dispatched", "Running"}
    /\ disp' = [disp EXCEPT
                   !.state = MarkSkipped([@ EXCEPT ![j] = "Cancelled"], j),
                   !.staged = IF j \in disp.received THEN @ \cup {j} ELSE @]
    /\ UNCHANGED pool
    /\ UNCHANGED <<treeVars, stagingVars, jobVars, dbVars, epVars>>

\* some job can still become eligible or be dispatched
CanProceed ==
    \E j \in Jobs :
        \/ disp.state[j] = "Pending" /\ \A c \in Children(j) : c \in disp.staged
        \/ disp.state[j] = "Ready" /\ Qualifying # {} /\ Cardinality(InFlight) < pool.global

\* the submit is finalized when no job is in flight and, the submit being
\* cancelled or no job being able to proceed, nothing is left to wait for;
\* of a cancelled submit the jobs that never ran are marked Skipped
Finalize ==
    /\ ~disp.finalized
    /\ InFlight = {}
    /\ disp.cancelled \/ ~CanProceed
    /\ disp' = [disp EXCEPT
                   !.finalized = TRUE,
                   !.state = IF disp.cancelled
                             THEN [k \in JobPackages |->
                                     IF k \in Jobs /\ @[k] \notin Terminal
                                     THEN "Skipped" ELSE @[k]]
                             ELSE @]
    /\ UNCHANGED pool
    /\ UNCHANGED <<treeVars, stagingVars, jobVars, dbVars, epVars>>

----------------------------------------------------------------------------
(* The query subcommands of `db` (src/commands/db.rs) *)

IntBits == 4

MaxLimit == 2

MaxSubmits == 2

MaxDbJobs == 3

MaxDbArtifacts == 2

MaxReleases == 2

MaxLogLines == 2

MaxRows == 5

\* usize and i64 are both IntBits wide here: 0..UsizeMax and up to I64Max
UsizeMax == 2^IntBits - 1

I64Max == 2^(IntBits - 1) - 1

\* matches.get_one::<usize>("limit") is None
NoArg == -1

LimitArgs == {NoArg} \cup (0..UsizeMax)

\* `limit as i64`: the bits of the usize read as a two's complement number
get_limit_wrapping(cli, default_limit) ==
    LET limit == IF cli # NoArg THEN cli ELSE default_limit
    IN  [ok |-> TRUE,
         v  |-> IF limit = 0 THEN I64Max
                ELSE IF limit > I64Max THEN limit - 2^IntBits ELSE limit]

\* get_limit: Ok(i64::MAX) for 0, i64::try_from(limit)? otherwise
get_limit(cli, default_limit) ==
    LET limit == IF cli # NoArg THEN cli ELSE default_limit
    IN  IF limit = 0 THEN [ok |-> TRUE, v |-> I64Max]
        ELSE IF limit <= I64Max THEN [ok |-> TRUE, v |-> limit]
        ELSE [ok |-> FALSE, v |-> 0]

DbPackages == {"a", "b"}

\* a log is the sequence of its lines: plain text, a #BUTIDO:STATE:OK marker,
\* a #BUTIDO:STATE:ERR marker, or a control line the parser rejects
LogLines == {"text", "ok", "err", "bad"}

Logs(n) == UNION {[1..k -> LogLines] : k \in 0..n}

\* ParsedLog::from_str: every line is parsed, the first error is the result
from_str(log) ==
    IF \E i \in 1..Len(log) : log[i] = "bad"
    THEN [ok |-> FALSE, items |-> <<>>]
    ELSE [ok |-> TRUE, items |-> log]

\* ParsedLog::is_successfull, the verdict rule
is_successfull(items) ==
    IF \E i \in 1..Len(items) : items[i] = "err" THEN "Errored"
    ELSE IF \E i \in 1..Len(items) : items[i] = "ok" THEN "Success"
    ELSE "Unknown"

\* is_job_successfull, then the "Ok?" column of `db jobs`: the parse error is
\* handed on, Some(true) is "yes", Some(false) is "no", None is "?"
is_job_successfull(job) ==
    LET pl == from_str(job.log)
    IN  IF ~pl.ok THEN "error"
        ELSE CASE is_successfull(pl.items) = "Success" -> "yes"
               [] is_successfull(pl.items) = "Errored" -> "no"
               [] OTHER -> "?"

\* the tables; the primary key of a row is its position (ids are handed out
\* in increasing order and rows are never deleted)
NoDb == [submits |-> <<>>, jobs |-> <<>>, artifacts |-> <<>>, releases |-> <<>>]

NoFilter == [pkg |-> "", id |-> 0, with |-> FALSE]

NoCounts == [jobs |-> 0, succ |-> 0, unkn |-> 0, err |-> 0]

NoQuery == [cmd |-> "none", cli |-> NoArg, dflt |-> 0, filter |-> NoFilter,
            limit |-> [ok |-> TRUE, v |-> 0], st |-> "none", out |-> <<>>,
            counts |-> NoCounts]

SubmitIds == 1..Len(db.submits)

JobIds == 1..Len(db.jobs)

ArtifactIds == 1..Len(db.artifacts)

ReleaseIds == 1..Len(db.releases)

\* the rows of all tables (an insert clears lastQ: what was printed is
\* read against the tables it was printed from)
Rows == Len(db.submits) + Len(db.jobs) + Len(db.artifacts) + Len(db.releases)

\* a submit is made for its requested package
InsertSubmit(pkg) ==
    /\ Rows < MaxRows
    /\ Len(db.submits) < MaxSubmits
    /\ db' = [db EXCEPT !.submits = Append(@, [pkg |-> pkg])]
    /\ lastQ' = NoQuery
    /\ UNCHANGED <<treeVars, stagingVars, jobVars, dispVars, epVars>>

\* a job of a submit builds a package and leaves its log
InsertJob(s, pkg, log) ==
    /\ Rows < MaxRows
    /\ Len(db.jobs) < MaxDbJobs
    /\ s \in SubmitIds
    /\ db' = [db EXCEPT !.jobs = Append(@, [submit |-> s, pkg |-> pkg, log |-> log])]
    /\ lastQ' = NoQuery
    /\ UNCHANGED <<treeVars, stagingVars, jobVars, dispVars, epVars>>

\* an artifact is the product of a job
InsertArtifact(j) ==
    /\ Rows < MaxRows
    /\ Len(db.artifacts) < MaxDbArtifacts
    /\ j \in JobIds
    /\ db' = [db EXCEPT !.artifacts = Append(@, [job |-> j])]
    /\ lastQ' = NoQuery
    /\ UNCHANGED <<treeVars, stagingVars, jobVars, dispVars, epVars>>

\* a release of an artifact (to one release store)
InsertRelease(a) ==
    /\ Rows < MaxRows
    /\ Len(db.releases) < MaxReleases
    /\ a \in ArtifactIds
    /\ db' = [db EXCEPT !.releases = Append(@, [artifact |-> a])]
    /\ lastQ' = NoQuery
    /\ UNCHANGED <<treeVars, stagingVars, jobVars, dispVars, epVars>>

\* a joined row: the key `id` the query is ordered by, and what it is joined
\* with (0 for the NULL of a left join)
Row(id, sub) == [id |-> id, sub |-> sub]

\* ORDER BY id DESC: every listing of the rows with non-increasing keys (the
\* order among rows of equal key is the database's choice)
RECURSIVE OrderByDesc(_)
OrderByDesc(rows) ==
    IF rows = {} THEN {<<>>}
    ELSE UNION {{<<r>> \o s : s \in OrderByDesc(rows \ {r})} :
                   r \in {x \in rows : \A y \in rows : x.id >= y.id}}

\* ... LIMIT n
Limit(seqs, n) == {SubSeq(s, 1, IF n < Len(s) THEN n ELSE Len(s)) : s \in seqs}

\* Iterator::rev
Rev(s) == [i \in 1..Len(s) |-> s[Len(s) + 1 - i]]

\* artifacts INNER JOIN jobs LEFT JOIN releases, the optional job filter
ArtifactRows(job) ==
    LET matching == {a \in ArtifactIds : job # 0 => db.artifacts[a].job = job}
        rels(a)  == {r \in ReleaseIds : db.releases[r].artifact = a}
    IN  UNION {IF rels(a) = {} THEN {Row(a, 0)} ELSE {Row(a, r) : r \in rels(a)} :
                  a \in matching}

\* `db artifacts`
artifacts(cli, default_limit, job) ==
    LET limit == get_limit(cli, default_limit)
    IN  /\ \E w \in (IF limit.ok THEN Limit(OrderByDesc(ArtifactRows(job)), limit.v)
                     ELSE {<<>>}) :
              lastQ' = [cmd |-> "artifacts", cli |-> cli, dflt |-> default_limit,
                        filter |-> [NoFilter EXCEPT !.id = job], limit |-> limit,
                        st |-> IF limit.ok THEN "ok" ELSE "err",
                        out |-> Rev(w), counts |-> NoCounts]
        /\ UNCHANGED db
        /\ UNCHANGED <<treeVars, stagingVars, jobVars, dispVars, epVars>>

\* submits INNER JOIN jobs INNER JOIN packages WHERE packages.name = pkg
WithPkgRows(pkg) ==
    {Row(db.jobs[j].submit, j) : j \in {i \in JobIds : db.jobs[i].pkg = pkg}}


SubmitRows(ids) == {Row(s, 0) : s \in ids}

\* `db submits`: --with_pkg runs two queries, the first one limited and
\* selecting submits.id, the second one loading the submits of these ids;
\* --for_pkg and the plain listing limit the submits themselves
submits(cli, default_limit, pkg, with) ==
    LET limit  == get_limit(cli, default_limit)
        for    == {s \in SubmitIds : pkg # "" => db.submits[s].pkg = pkg}
        second(submit_ids) ==
            OrderByDesc(SubmitRows({submit_ids[i].id : i \in 1..Len(submit_ids)}))
    IN  /\ with => pkg # ""
        /\ \E w \in (IF ~limit.ok THEN {<<>>}
                     ELSE IF with
                     THEN UNION {second(ids) :
                                   ids \in Limit(OrderByDesc(WithPkgRows(pkg)), limit.v)}
                     ELSE Limit(OrderByDesc(SubmitRows(for)), limit.v)) :
              lastQ' = [cmd |-> "submits", cli |-> cli, dflt |-> default_limit,
                        filter |-> [pkg |-> pkg, id |-> 0, with |-> with],
                        limit |-> limit, st |-> IF limit.ok THEN "ok" ELSE "err",
                        out |-> Rev(w), counts |-> NoCounts]
        /\ UNCHANGED db
        /\ UNCHANGED <<treeVars, stagingVars, jobVars, dispVars, epVars>>

\* the jobs the filters of `db jobs` keep
MatchingJobs(s, pkg) ==
    {j \in JobIds : /\ s # 0 => db.jobs[j].submit = s
                    /\ pkg # "" => db.jobs[j].pkg = pkg}

\* jobs INNER JOIN submits ... LEFT OUTER JOIN artifacts
JobRows(s, pkg) ==
    LET arts(j) == {a \in ArtifactIds : db.artifacts[a].job = j}
    IN  UNION {IF arts(j) = {} THEN {Row(j, 0)} ELSE {Row(j, a) : a \in arts(j)} :
                  j \in MatchingJobs(s, pkg)}

\* `db jobs`: the first row whose log does not parse ends the command
jobs(cli, default_limit, s, pkg) ==
    LET limit == get_limit(cli, default_limit)
        ok(w) == \A i \in 1..Len(w) : is_job_successfull(db.jobs[w[i].id]) # "error"
        line(r) == [id |-> r.id, sub |-> r.sub, ok |-> is_job_successfull(db.jobs[r.id])]
    IN  /\ \E w \in (IF limit.ok THEN Limit(OrderByDesc(JobRows(s, pkg)), limit.v)
                     ELSE {<<>>}) :
              lastQ' = [cmd |-> "jobs", cli |-> cli, dflt |-> default_limit,
                        filter |-> [pkg |-> pkg, id |-> s, with |-> FALSE],
                        limit |-> limit,
                        st |-> IF limit.ok /\ ok(w) THEN "ok" ELSE "err",
                        out |-> IF ok(w) THEN [i \in 1..Len(w) |-> line(Rev(w)[i])]
                                ELSE <<>>,
                        counts |-> NoCounts]
        /\ UNCHANGED db
        /\ UNCHANGED <<treeVars, stagingVars, jobVars, dispVars, epVars>>

\* the package a release belongs to: releases -> artifacts -> jobs -> packages
ReleasePkg(r) == db.jobs[db.artifacts[db.releases[r].artifact].job].pkg

\* jobs INNER JOIN packages INNER JOIN artifacts INNER JOIN releases
ReleaseRows(pkg) ==
    {Row(r, db.releases[r].artifact) : r \in {x \in ReleaseIds : pkg # "" => ReleasePkg(x) = pkg}}

\* `db releases`: the loaded rows are printed as they come
releases(cli, default_limit, pkg) ==
    LET limit == get_limit(cli, default_limit)
    IN  /\ \E w \in (IF limit.ok THEN Limit(OrderByDesc(ReleaseRows(pkg)), limit.v)
                     ELSE {<<>>}) :
              lastQ' = [cmd |-> "releases", cli |-> cli, dflt |-> default_limit,
                        filter |-> [NoFilter EXCEPT !.pkg = pkg], limit |-> limit,
                        st |-> IF limit.ok THEN "ok" ELSE "err",
                        out |-> w, counts |-> NoCounts]
        /\ UNCHANGED db
        /\ UNCHANGED <<treeVars, stagingVars, jobVars, dispVars, epVars>>

\* the jobs of a submit
JobsOf(s) == {j \in JobIds : db.jobs[j].submit = s}

\* the number of jobs of js whose log has the verdict v
Verdicts(js, v) ==
    Cardinality({j \in js : /\ from_str(db.jobs[j].log).ok
                            /\ is_successfull(from_str(db.jobs[j].log).items) = v})

\* `db submit`: the head of the report; counting ends at the first log that
\* does not parse, and nothing is printed then
submit(s) ==
    LET js == JobsOf(s)
        parsed == \A j \in js : from_str(db.jobs[j].log).ok
    IN  /\ s \in SubmitIds
        /\ lastQ' = [NoQuery EXCEPT
                        !.cmd = "submit", !.filter = [NoFilter EXCEPT !.id = s],
                        !.st = IF parsed THEN "ok" ELSE "err",
                        !.counts = IF parsed
                                   THEN [jobs |-> Cardinality(js),
                                         succ |-> Verdicts(js, "Success"),
                                         unkn |-> Verdicts(js, "Unknown"),
                                         err  |-> Verdicts(js, "Errored")]
                                   ELSE NoCounts]
        /\ UNCHANGED db
        /\ UNCHANGED <<treeVars, stagingVars, jobVars, dispVars, epVars>>

\* `db job`: the job is loaded, its log parsed, its verdict printed
job(j) ==
    LET pl == from_str(db.jobs[j].log)
    IN  /\ j \in JobIds
        /\ lastQ' = [NoQuery EXCEPT
                        !.cmd = "job", !.filter = [NoFilter EXCEPT !.id = j],
                        !.st = IF pl.ok THEN "ok" ELSE "err",
                        !.out = IF pl.ok
                                THEN <<[id |-> j, sub |-> 0,
                                        ok |-> is_successfull(pl.items)]>>
                                ELSE <<>>]
        /\ UNCHANGED db
        /\ UNCHANGED <<treeVars, stagingVars, jobVars, dispVars, epVars>>

----------------------------------------------------------------------------
(* The `endpoint ping` and `endpoint containers prune` subcommands          *)
(* (src/commands/endpoint.rs)                                               *)

PingBits == 2

MaxTime == 3

NumContainers == 2

\* u64 is PingBits wide here
U64Max == 2^PingBits - 1

\* the upper end of the range 1..(n_pings + 1), the sum taken in u64
RangeEnd(n_pings) == (n_pings + 1) % 2^PingBits

\* the number of turns of `for i in 1..(n_pings + 1)`
Turns(n_pings) == IF RangeEnd(n_pings) > 1 THEN RangeEnd(n_pings) - 1 ELSE 0

\* a container of an endpoint, as container_stats reports it
ContainerStates == {"exited", "running"}

Times == 1..MaxTime

\* no date filter given
NoDate == 0

NoEnds == <<>>

ContainerIds == 1..Len(ends)

NoCmd == [cmd |-> "none", st |-> "none", sel |-> {}, n |-> 0, turns |-> 0,
          pc |-> [e \in Endpoints |-> "none"],
          issued |-> [e \in Endpoints |-> 0],
          answered |-> [e \in Endpoints |-> 0],
          failed |-> [e \in Endpoints |-> 0],
          older |-> NoDate, newer |-> NoDate, listed |-> {}, stats |-> {},
          answer |-> "none", tried |-> {}, deleted |-> {}]

\* `endpoint ping`: the arguments are read and the selected endpoints are
\* connected; each endpoint gets its future. With overflow checks the sum
\* n_pings + 1 panics when it does not fit, without them it wraps.
ping(sel, n_pings, connected, overflow_checks) ==
    /\ ecmd.st = "none"
    /\ ecmd' = [NoCmd EXCEPT
                   !.cmd = "ping", !.sel = sel, !.n = n_pings,
                   !.st = IF ~connected THEN "err"
                          ELSE IF sel # {} /\ n_pings + 1 > U64Max /\ overflow_checks
                          THEN "panic"
                          ELSE "running",
                   !.turns = Turns(n_pings),
                   !.pc = [e \in Endpoints |->
                             IF connected /\ e \in sel THEN "loop" ELSE "none"]]
    /\ UNCHANGED ends
    /\ UNCHANGED <<treeVars, stagingVars, jobVars, dispVars, dbVars>>

\* the next turn of the loop of endpoint e: endpoint.ping() is called
IssuePing(e) ==
    /\ ecmd.cmd = "ping"
    /\ ecmd.st = "running"
    /\ ecmd.pc[e] = "loop"
    /\ ecmd.issued[e] < ecmd.turns
    /\ ecmd' = [ecmd EXCEPT !.pc[e] = "pinging", !.issued[e] = @ + 1]
    /\ UNCHANGED ends
    /\ UNCHANGED <<treeVars, stagingVars, jobVars, dispVars, dbVars>>

\* the ping is answered: the loop sleeps and goes on; or it fails: the future
\* returns the error, which ends the collect and drops the other futures
PingResult(e, ok) ==
    /\ ecmd.cmd = "ping"
    /\ ecmd.st = "running"
    /\ ecmd.pc[e] = "pinging"
    /\ ecmd' = IF ok
               THEN [ecmd EXCEPT !.pc[e] = "loop", !.answered[e] = @ + 1]
               ELSE [ecmd EXCEPT !.pc[e] = "failed", !.failed[e] = @ + 1,
                                 !.st = "err"]
    /\ UNCHANGED ends
    /\ UNCHANGED <<treeVars, stagingVars, jobVars, dispVars, dbVars>>

\* the loop of endpoint e is over: the future returns Ok(())
PingsDone(e) ==
    /\ ecmd.cmd = "ping"
    /\ ecmd.st = "running"
    /\ ecmd.pc[e] = "loop"
    /\ ecmd.issued[e] >= ecmd.turns
    /\ ecmd' = [ecmd EXCEPT !.pc[e] = "done"]
    /\ UNCHANGED ends
    /\ UNCHANGED <<treeVars, stagingVars, jobVars, dispVars, dbVars>>

\* every future returned Ok(()): the collect, and the command, return Ok(())
PingOk ==
    /\ ecmd.cmd = "ping"
    /\ ecmd.st = "running"
    /\ \A e \in ecmd.sel : ecmd.pc[e] = "done"
    /\ ecmd' = [ecmd EXCEPT !.st = "ok"]
    /\ UNCHANGED ends
    /\ UNCHANGED <<treeVars, stagingVars, jobVars, dispVars, dbVars>>

\* the three filters of containers_prune, without the one on the state
Prunable_in_any_state(stat, older_than, newer_than) ==
    /\ older_than # NoDate => older_than > stat.created
    /\ newer_than # NoDate => newer_than < stat.created

\* the three filters of containers_prune on a container's stat
Prunable(stat, older_than, newer_than) ==
    /\ stat.state = "exited"
    /\ older_than # NoDate => older_than > stat.created
    /\ newer_than # NoDate => newer_than < stat.created

\* `endpoint containers prune`: the date filters are read and the selected
\* endpoints are connected
containers_prune(sel, older_than, newer_than, connected) ==
    /\ ecmd.st = "none"
    /\ ecmd' = [NoCmd EXCEPT
                   !.cmd = "prune", !.sel = sel,
                   !.older = older_than, !.newer = newer_than,
                   !.st = IF connected THEN "running" ELSE "err",
                   !.pc = [e \in Endpoints |->
                             IF connected /\ e \in sel THEN "list" ELSE "none"]]
    /\ UNCHANGED ends
    /\ UNCHANGED <<treeVars, stagingVars, jobVars, dispVars, dbVars>>

\* container_stats of endpoint e answers, the filters are applied; or it
\* fails, which ends the command
ListContainers(e, ok) ==
    /\ ecmd.cmd = "prune"
    /\ ecmd.st = "running"
    /\ ecmd.pc[e] = "list"
    /\ ecmd' = IF ok
               THEN [ecmd EXCEPT
                        !.pc[e] = "listed",
                        !.listed = @ \cup {c \in ContainerIds :
                                              ends[c].alive /\ ends[c].ep = e},
                        !.stats = @ \cup {c \in ContainerIds :
                                             /\ ends[c].alive /\ ends[c].ep = e
                                             /\ Prunable(ends[c], ecmd.older, ecmd.newer)}]
               ELSE [ecmd EXCEPT !.pc[e] = "failed", !.st = "err"]
    /\ UNCHANGED ends
    /\ UNCHANGED <<treeVars, stagingVars, jobVars, dispVars, dbVars>>

\* "Really delete n Containers?": declined, the command returns Ok(()); the
\* prompt can fail as well
Confirm(answer) ==
    /\ ecmd.cmd = "prune"
    /\ ecmd.st = "running"
    /\ ecmd.answer = "none"
    /\ \A e \in ecmd.sel : ecmd.pc[e] = "listed"
    /\ ecmd' = [ecmd EXCEPT !.answer = answer,
                            !.st = CASE answer = "yes" -> "running"
                                     [] answer = "no" -> "ok"
                                     [] OTHER -> "err"]
    /\ UNCHANGED ends
    /\ UNCHANGED <<treeVars, stagingVars, jobVars, dispVars, dbVars>>

\* one of the listed containers is looked up by id and deleted; a failure
\* ends the command and leaves the others where they are
DeleteContainer(c, ok) ==
    /\ ecmd.cmd = "prune"
    /\ ecmd.st = "running"
    /\ ecmd.answer = "yes"
    /\ c \in ecmd.stats \ ecmd.tried
    /\ ecmd' = [ecmd EXCEPT !.tried = @ \cup {c},
                            !.deleted = IF ok THEN @ \cup {c} ELSE @,
                            !.st = IF ok THEN @ ELSE "err"]
    /\ ends' = IF ok THEN [ends EXCEPT ![c].alive = FALSE] ELSE ends
    /\ UNCHANGED <<treeVars, stagingVars, jobVars, dispVars, dbVars>>

\* every delete returned Ok(()): so does the command
PruneOk ==
    /\ ecmd.cmd = "prune"
    /\ ecmd.st = "running"
    /\ ecmd.answer = "yes"
    /\ ecmd.stats \subseteq ecmd.tried
    /\ ecmd' = [ecmd EXCEPT !.st = "ok"]
    /\ UNCHANGED ends
    /\ UNCHANGED <<treeVars, stagingVars, jobVars, dispVars, dbVars>>

----------------------------------------------------------------------------
(* Specifications *)

InitTree ==
    /\ repo \in Repositories(MaxRepoDeps)
    /\ tree = EmptyTree
    /\ last = NoCall
    /\ calls = 0
    /\ index = {}
    /\ disk = [p \in EntryPaths |-> "none"]
    /\ lastW = NoWrite
    /\ stores = NoArtifacts
    /\ pkgs = NoPackageDeps
    /\ rjob = NoJob
    /\ pool = NoPool
    /\ disp = NoSubmit
    /\ db = NoDb
    /\ lastQ = NoQuery
    /\ ends = NoEnds
    /\ ecmd = NoCmd

NextTree == \E p \in Packages : add_package(p)

SpecTree == InitTree /\ [][NextTree]_vars

\* StagingStore::load on an empty store directory; what lies at "../x",
\* outside the store, is not the store's: nothing or a directory
InitStaging ==
    /\ repo = [p \in Packages |-> NoDeps]
    /\ tree = EmptyTree
    /\ last = NoCall
    /\ calls = 0
    /\ index = {}
    /\ disk \in {[[p \in EntryPaths |-> "none"] EXCEPT !["../x"] = k] : k \in {"none", "dir"}}
    /\ lastW = NoWrite
    /\ stores = NoArtifacts
    /\ pkgs = NoPackageDeps
    /\ rjob = NoJob
    /\ pool = NoPool
    /\ disp = NoSubmit
    /\ db = NoDb
    /\ lastQ = NoQuery
    /\ ends = NoEnds
    /\ ecmd = NoCmd

NextStaging ==
    \/ \E stream \in {"error", "malformed"} :
          write_files_from_tar_stream(stream, <<>>, 0)
    \/ \E archive \in Archives(MaxEntries) : \E failAt \in 0..Len(archive) :
          write_files_from_tar_stream("tar", archive, failAt)

SpecStaging == InitStaging /\ [][NextStaging]_vars

\* the stores and the package definitions a job is built against
InitJob ==
    /\ repo = [p \in Packages |-> NoDeps]
    /\ tree = EmptyTree
    /\ last = NoCall
    /\ calls = 0
    /\ index = {}
    /\ disk = [p \in EntryPaths |-> "none"]
    /\ lastW = NoWrite
    /\ stores \in StoreStates(MaxArtifacts)
    /\ pkgs \in PackageTables(MaxJobDeps)
    /\ rjob = NoJob
    /\ pool = NoPool
    /\ disp = NoSubmit
    /\ db = NoDb
    /\ lastQ = NoQuery
    /\ ends = NoEnds
    /\ ecmd = NoCmd

NextJob ==
    \/ \E pkg \in JobPackages : \E scriptOk \in BOOLEAN : StartJob(pkg, scriptOk)
    \/ \E f \in rjob.pending : \E lookupOk \in BOOLEAN : CompleteResource(f, lookupOk)
    \/ JoinJob

SpecJob == InitJob /\ [][NextJob]_vars

\* a submit of the root package: the tree is built, the endpoints and the
\* bounds come from the configuration. The dispatcher does not tell a build
\* dependency from a runtime dependency (both are children in the tree), so
\* the dependencies are all declared as build dependencies.
InitDispatch ==
    /\ repo = [p \in Packages |-> NoDeps]
    /\ tree = EmptyTree
    /\ last = NoCall
    /\ calls = 0
    /\ index = {}
    /\ disk = [p \in EntryPaths |-> "none"]
    /\ lastW = NoWrite
    /\ stores = NoArtifacts
    /\ pkgs \in {t \in PackageTables(MaxJobDeps) :
                    Acyclic(t) /\ \A p \in JobPackages : t[p].runtime = <<>>}
    /\ rjob = NoJob
    /\ pool \in [declares : [Endpoints -> BOOLEAN],
                 perEndpoint : 1..MaxPerEndpoint, global : 1..MaxInFlight]
    /\ disp = NoSubmit
    /\ db = NoDb
    /\ lastQ = NoQuery
    /\ ends = NoEnds
    /\ ecmd = NoCmd

NextDispatch ==
    \E j \in JobPackages :
        \/ MakeReady(j)
        \/ Dispatch(j)
        \/ DispatchFails(j)
        \/ StartContainer(j)
        \/ ReceiveTar(j)
        \/ \E verdict \in {"Succeeded", "Errored", "Unknown"} : ContainerExit(j, verdict)
        \/ StopJob(j)
        \/ Cancel
        \/ Finalize

SpecDispatch == InitDispatch /\ [][NextDispatch]_vars

\* the scheduler runs every task that can take a step
SpecDispatchFair == SpecDispatch /\ WF_vars(NextDispatch)

\* an empty database; --limit is a small number or not given, and the
\* configured default is 0
CliLimits == {NoArg} \cup (1..MaxLimit)

InitDb ==
    /\ repo = [p \in Packages |-> NoDeps]
    /\ tree = EmptyTree
    /\ last = NoCall
    /\ calls = 0
    /\ index = {}
    /\ disk = [p \in EntryPaths |-> "none"]
    /\ lastW = NoWrite
    /\ stores = NoArtifacts
    /\ pkgs = NoPackageDeps
    /\ rjob = NoJob
    /\ pool = NoPool
    /\ disp = NoSubmit
    /\ db = NoDb
    /\ lastQ = NoQuery
    /\ ends = NoEnds
    /\ ecmd = NoCmd

NextDb ==
    \/ \E pkg \in DbPackages : InsertSubmit(pkg)
    \/ \E s \in SubmitIds : \E pkg \in DbPackages : InsertJob(s, pkg, <<"ok">>)
    \/ \E j \in JobIds : InsertArtifact(j)
    \/ \E a \in ArtifactIds : InsertRelease(a)
    \/ \E cli \in CliLimits : \E j \in {0} \cup JobIds : artifacts(cli, 0, j)
    \/ \E cli \in CliLimits : \E pkg \in {""} \cup DbPackages : \E with \in BOOLEAN :
          submits(cli, 0, pkg, with)
    \/ \E cli \in CliLimits : \E s \in {0} \cup SubmitIds : \E pkg \in {""} \cup DbPackages :
          jobs(cli, 0, s, pkg)
    \/ \E cli \in CliLimits : \E pkg \in {""} \cup DbPackages : releases(cli, 0, pkg)

SpecDb == InitDb /\ [][NextDb]_vars

\* get_limit over every --limit and every configured default
InitLimit ==
    /\ repo = [p \in Packages |-> NoDeps]
    /\ tree = EmptyTree
    /\ last = NoCall
    /\ calls = 0
    /\ index = {}
    /\ disk = [p \in EntryPaths |-> "none"]
    /\ lastW = NoWrite
    /\ stores = NoArtifacts
    /\ pkgs = NoPackageDeps
    /\ rjob = NoJob
    /\ pool = NoPool
    /\ disp = NoSubmit
    /\ db = NoDb
    /\ lastQ = NoQuery
    /\ ends = NoEnds
    /\ ecmd = NoCmd

NextLimit ==
    \E cli \in LimitArgs : \E default_limit \in 0..UsizeMax :
        \/ artifacts(cli, default_limit, 0)
        \/ jobs(cli, default_limit, 0, "")

SpecLimit == InitLimit /\ [][NextLimit]_vars

\* one submit whose jobs leave their logs
InitLog ==
    /\ repo = [p \in Packages |-> NoDeps]
    /\ tree = EmptyTree
    /\ last = NoCall
    /\ calls = 0
    /\ index = {}
    /\ disk = [p \in EntryPaths |-> "none"]
    /\ lastW = NoWrite
    /\ stores = NoArtifacts
    /\ pkgs = NoPackageDeps
    /\ rjob = NoJob
    /\ pool = NoPool
    /\ disp = NoSubmit
    /\ db = [NoDb EXCEPT !.submits = <<[pkg |-> "a"]>>]
    /\ lastQ = NoQuery
    /\ ends = NoEnds
    /\ ecmd = NoCmd

NextLog ==
    \/ \E log \in Logs(MaxLogLines) : InsertJob(1, "a", log)
    \/ submit(1)
    \/ jobs(NoArg, 0, 0, "")
    \/ \E j \in JobIds : job(j)

SpecLog == InitLog /\ [][NextLog]_vars

InitPing ==
    /\ repo = [p \in Packages |-> NoDeps]
    /\ tree = EmptyTree
    /\ last = NoCall
    /\ calls = 0
    /\ index = {}
    /\ disk = [p \in EntryPaths |-> "none"]
    /\ lastW = NoWrite
    /\ stores = NoArtifacts
    /\ pkgs = NoPackageDeps
    /\ rjob = NoJob
    /\ pool = NoPool
    /\ disp = NoSubmit
    /\ db = NoDb
    /\ lastQ = NoQuery
    /\ ends = NoEnds
    /\ ecmd = NoCmd

NextPing ==
    \/ \E sel \in SUBSET Endpoints : \E n_pings \in 0..U64Max :
       \E connected \in BOOLEAN : \E overflow_checks \in BOOLEAN :
          ping(sel, n_pings, connected, overflow_checks)
    \/ \E e \in Endpoints :
          \/ IssuePing(e)
          \/ \E ok \in BOOLEAN : PingResult(e, ok)
          \/ PingsDone(e)
    \/ PingOk

SpecPing == InitPing /\ [][NextPing]_vars

\* the containers the endpoints hold when the command is run
InitPrune ==
    /\ repo = [p \in Packages |-> NoDeps]
    /\ tree = EmptyTree
    /\ last = NoCall
    /\ calls = 0
    /\ index = {}
    /\ disk = [p \in EntryPaths |-> "none"]
    /\ lastW = NoWrite
    /\ stores = NoArtifacts
    /\ pkgs = NoPackageDeps
    /\ rjob = NoJob
    /\ pool = NoPool
    /\ disp = NoSubmit
    /\ db = NoDb
    /\ lastQ = NoQuery
    /\ ends \in [1..NumContainers ->
                   [ep : Endpoints, state : ContainerStates, created : Times,
                    alive : {TRUE}]]
    /\ ecmd = NoCmd

NextPrune ==
    \/ \E sel \in SUBSET Endpoints : \E older_than \in {NoDate} \cup Times :
       \E newer_than \in {NoDate} \cup Times : \E connected \in BOOLEAN :
          containers_prune(sel, older_than, newer_than, connected)
    \/ \E e \in Endpoints : \E ok \in BOOLEAN : ListContainers(e, ok)
    \/ \E answer \in {"yes", "no", "error"} : Confirm(answer)
    \/ \E c \in ContainerIds : \E ok \in BOOLEAN : DeleteContainer(c, ok)
    \/ PruneOk

SpecPrune == InitPrune /\ [][NextPrune]_vars

----------------------------------------------------------------------------
(* Notions the claims about the tree are stated in *)

Last(path) == path[Len(path)]

\* the packages of the subtree stored under the node that path leads to
ChildrenOf(t, path) == {q \in Packages : Append(path, q) \in t}

\* the set of packages a dependency resolves to
Resolved(d) == {q \in DOMAIN repo : name(q) = d[1] /\ version(q) \in d[2]}

DepsOf(q) == {repo[q].deps[i] : i \in 1..Len(repo[q].deps)}

\* the packages reachable from the packages of S along resolved dependencies
RECURSIVE Closure(_)
Closure(S) ==
    LET T == S \cup UNION {Resolved(d) : d \in UNION {DepsOf(q) : q \in S}}
    IN IF T = S THEN S ELSE Closure(T)

\* the resolved dependencies of p, transitively
ResolvedDeps(p) == Closure(UNION {Resolved(d) : d \in DepsOf(p)})

AllReadable(S) == \A q \in S : repo[q].ok

NamesOf(S) == {name(q) : q \in S}

NamesIn(t) == {name(path[i]) : <<path, i>> \in {x \in t \X (1..(NumNames * NumVersions + 1)) : x[2] <= Len(x[1])}}

\* two packages of the closure of p require disjoint, satisfiable version
\* sets of one package name
DiamondConflict(p) ==
    \E q1, q2 \in Closure({p}) :
        /\ q1 # q2
        /\ \E d1 \in DepsOf(q1), d2 \in DepsOf(q2) :
              /\ d1[1] = d2[1]
              /\ Resolved(d1) # {} /\ Resolved(d2) # {}
              /\ Resolved(d1) \cap Resolved(d2) = {}

----------------------------------------------------------------------------
(* Claims about Tree *)

\* C1: after any sequence of add_package calls every PackageName occurs at
\* most once in the whole tree, every level of nesting counted: two nodes of
\* the tree never carry the same name.
C1_NameAtMostOnce ==
    \A q1, q2 \in tree : name(Last(q1)) = name(Last(q2)) => q1 = q2

\* C2: when two packages of the dependency closure of the package given to
\* add_package require different versions of one package name, the call
\* returns the duplicate-package error (it does not build a tree).
C2_DiamondRejected ==
    (last.st \in {"ok", "duplicate"} /\ DiamondConflict(last.p))
        => last.st = "duplicate"

\* C3: add_package terminates for every repository, cyclic ones included:
\* no call recurses without end.
C3_Terminates == last.st # "diverges"

\* C4 as stated: for every package p, has_package(p) is true if and only if
\* package_depth(p) is Some.
C4_HasIffDepth ==
    \A p \in Packages : has_package(tree, p) <=> package_depth(tree, p) # {}

\* C4 amended: package_depth(p) is Some only if has_package(p) is true, and
\* has_package(p) is true if and only if a package with the name of p has a
\* depth (package_depth_where with the comparison by name is Some).
C4_HasIffNameDepth ==
    \A p \in Packages :
        /\ package_depth(tree, p) # {} => has_package(tree, p)
        /\ has_package(tree, p) <=>
              package_depth_where(tree, {k \in Packages : name(k) = name(p)}) # {}

\* C4 witness: a package is nested in the tree, and another version of its
\* name is not in the tree
C4_Witness ==
    \E path \in tree : \E p \in Packages :
        /\ Len(path) > 1
        /\ name(p) = name(Last(path))
        /\ \A q \in tree : Last(q) # p

\* C5: package_depth(p) is the depth of the shallowest occurrence of p (root
\* level 0, one more per level of nesting), None exactly when p is absent.
C5_ShallowestDepth ==
    \A p \in Packages :
        LET occ == {Len(path) - 1 : path \in {q \in tree : Last(q) = p}}
        IN package_depth(tree, p) =
              IF occ = {} THEN {} ELSE {CHOOSE d \in occ : \A e \in occ : d <= e}

\* C6: after a successful add_package(p) on an empty tree the top level holds
\* exactly p, and the packages under every node q are exactly the packages
\* the repository returns for the dependencies of q.
C6_SubtreesAreResolvedDeps ==
    (last.st = "ok" /\ last.before = EmptyTree) =>
        /\ packages(tree) = {last.p}
        /\ \A path \in tree :
              ChildrenOf(tree, path) = UNION {Resolved(d) : d \in DepsOf(Last(path))}

\* C6 witness: a successful call on the empty tree built two levels of
\* dependencies, and a version the constraint does not accept stayed out
C6_Witness ==
    /\ last.st = "ok" /\ last.before = EmptyTree
    /\ \E path \in tree :
          /\ Len(path) = 3
          /\ \E q \in Packages : name(q) = name(path[2]) /\ <<path[1], q>> \notin tree

\* C7: a call whose resolved dependencies share no package name with what
\* earlier calls put into the tree succeeds (all dependency lists readable).
C7_IndependentCallSucceeds ==
    ( /\ last.st # "none"
      /\ AllReadable(Closure({last.p}))
      /\ NamesOf(ResolvedDeps(last.p)) \cap NamesIn(last.before) = {} )
        => /\ last.st = "ok"
           /\ last.p \in packages(tree)

----------------------------------------------------------------------------
(* Claims about StagingStore *)

Range(seq) == {seq[i] : i \in 1..Len(seq)}

C9_AllOrNothing == lastW.st = "err" => index = lastW.indexBefore

\* C10: an archive with an entry whose path leaves the store root is
\* rejected before anything is unpacked: the call fails, no file is written
\* and no path is indexed.
C10_TraversalRejectedBeforeUnpack ==
    lastW.escaping =>
        /\ lastW.st = "err"
        /\ disk = lastW.diskBefore
        /\ index = lastW.indexBefore

----------------------------------------------------------------------------
(* Claims about RunnableJob *)

\* the dependencies of a package, build and runtime
DirectDeps(pkg) == Range(pkgs[pkg].build) \cup Range(pkgs[pkg].runtime)

\* the dependencies of a package the stores hold no artifact for
MissingDeps(pkg) ==
    {d \in DirectDeps(pkg) :
        get_artifact_by_name_and_version(parse_as_name_and_version(d)) = <<>>}

\* the JobResources the collects have gathered so far
Gathered == Range(rjob.build) \cup Range(rjob.runtime)

DepOf(r) == pkgs[rjob.pkg][r.kind][r.i]

\* C12: for every RunnableJob build_from_job returns, whatever the order the
\* lookups completed in, resources has one element per build dependency and
\* per runtime dependency, and every resource of a build dependency stands
\* before every resource of a runtime dependency.
C12_BuildBeforeRuntime ==
    rjob.st = "ok" =>
        LET res == rjob.resources
            nb == Len(pkgs[rjob.pkg].build)
            nr == Len(pkgs[rjob.pkg].runtime)
        IN /\ Len(res) = nb + nr
           /\ {<<res[k].kind, res[k].i>> : k \in 1..Len(res)} =
                 ({"build"} \X (1..nb)) \cup ({"runtime"} \X (1..nr))
           /\ \A k1, k2 \in 1..Len(res) :
                 (res[k1].kind = "build" /\ res[k2].kind = "runtime") => k1 < k2

\* C12 witness: a job was returned whose runtime lookup completed before its
\* build lookup
C12_Witness ==
    /\ rjob.st = "ok"
    /\ pkgs[rjob.pkg].build # <<>>
    /\ rjob.order[1][1] = "runtime"

\* C13: if a build or runtime dependency has no matching artifact,
\* build_from_job fails and produces no RunnableJob, whatever the other
\* dependencies resolve to; the error is the missing-dependency error when
\* the script was built and no lookup failed for another reason.
C13_MissingDependencyFails ==
    (rjob.pc = "done" /\ MissingDeps(rjob.pkg) # {}) =>
        /\ rjob.st = "err"
        /\ rjob.resources = <<>>
        /\ (rjob.err # "script" /\ "lookup" \notin {rjob.buildErr, rjob.rtErr})
              => rjob.err = "missing"

\* C13 witness: the call failed with the missing-dependency error although
\* another dependency had been resolved
C13_Witness ==
    /\ rjob.pc = "done"
    /\ rjob.err = "missing"
    /\ Gathered # {}

\* C14: when the stores return more than one artifact for a dependency,
\* build_resource does not fail: it yields the least of the matches under the
\* order of artifacts, in whatever order the stores returned them, and logs a
\* warning.
C14_LeastOfMatches ==
    /\ \A r \in Gathered :
          LET a == get_artifact_by_name_and_version(parse_as_name_and_version(DepOf(r)))
          IN /\ \E k \in 1..Len(a) : a[k].path = r.art.path
             /\ \A k \in 1..Len(a) : ~ArtifactLess(a[k], r.art)
             /\ Len(a) > 1 => DepOf(r) \in rjob.warned
    /\ \A k \in 1..Len(rjob.order) :
          LET f == rjob.order[k]
              d == pkgs[rjob.pkg][f[1]][f[2]]
          IN Len(get_artifact_by_name_and_version(parse_as_name_and_version(d))) > 1 =>
                \/ \E r \in Gathered : r.kind = f[1] /\ r.i = f[2]
                \/ ErrOf(rjob, f[1]) = "lookup"

\* C14 witness: a dependency with two matches was resolved, and the stores
\* returned the greater match first
C14_Witness ==
    \E r \in Gathered :
        LET a == get_artifact_by_name_and_version(parse_as_name_and_version(DepOf(r)))
        IN /\ Len(a) = 2
           /\ ArtifactLess(a[2], a[1])
           /\ DepOf(r) \in rjob.warned

Chain ==
    /\ pkgs["a"].build \o pkgs["a"].runtime = <<"b">>
    /\ pkgs["b"].build \o pkgs["b"].runtime = <<"c">>
    /\ pkgs["c"].build \o pkgs["c"].runtime = <<>>

ResourceNames == {ArtifactName(rjob.resources[k].art.path) : k \in 1..Len(rjob.resources)}

\* C16 as stated: in a linear chain a -> b -> c the resources of the
\* RunnableJob of a are exactly the artifact of b and the artifact of the
\* transitive dependency c.
C16_ChainResources ==
    (Chain /\ rjob.pkg = "a" /\ rjob.st = "ok") => ResourceNames = {"b", "c"}

\* C16 amended: the resources of a RunnableJob are the artifacts of the
\* dependencies its own package declares; in the chain a -> b -> c the job
\* of a has the artifact of b and not the artifact of c.
C16_DirectDependenciesOnly ==
    rjob.st = "ok" =>
        /\ ResourceNames = DirectDeps(rjob.pkg)
        /\ (Chain /\ rjob.pkg = "a") => ResourceNames = {"b"}

\* C16 witness: the job of a was built in the chain while the stores held an
\* artifact of c
C16_Witness ==
    /\ Chain /\ rjob.pkg = "a" /\ rjob.st = "ok"
    /\ "c-1.pkg" \in Range(stores.staging) \cup Range(stores.release)

----------------------------------------------------------------------------
(* Claims about the Dispatcher *)

\* the position of a job state on the path Pending, Ready, Dispatched,
\* Running, terminal
Rank(st) ==
    CASE st = "Pending" -> 0 [] st = "Ready" -> 1 [] st = "Dispatched" -> 2
      [] st = "Running" -> 3 [] OTHER -> 4

Started(j) == j \in disp.dispatched \/ disp.state[j] \in {"Dispatched", "Running"}

\* C17: the state of a job moves only forward along Pending, Ready,
\* Dispatched, Running, terminal, and a job in a terminal state (Succeeded,
\* Errored, Unknown, Skipped, Cancelled) never changes state again.
C17_ForwardOnly ==
    [][\A j \in JobPackages :
          /\ Rank(disp.state[j]) <= Rank(disp'.state[j])
          /\ disp.state[j] \in Terminal => disp'.state[j] = disp.state[j]]_vars

\* C17 witness: a dispatch was retried, jobs ended as Succeeded, Errored and
\* Skipped
C17_Witness ==
    /\ \E j \in Jobs : disp.state[j] = "Errored" /\ disp.retries[j] > 0
    /\ \E j \in Jobs : disp.state[j] = "Skipped"
    /\ \E j \in Jobs : disp.state[j] = "Succeeded"

C19_BoundsAndProgress ==
    /\ [](/\ Cardinality(InFlight) <= pool.global
          /\ \A e \in Endpoints : Load(e) <= pool.perEndpoint
          /\ \A j \in InFlight :
                disp.endpoint[j] \in Endpoints /\ pool.declares[disp.endpoint[j]])
    /\ \A j \in JobPackages :
          (disp.state[j] = "Ready" /\ \E e \in Endpoints : pool.declares[e])
              ~> (j \in disp.dispatched \/ disp.cancelled)

\* C19 witness: an eligible job waits while the jobs in flight are at the
\* global bound
C19_Witness ==
    /\ \E j \in Jobs : disp.state[j] = "Ready"
    /\ \E e \in Endpoints : pool.declares[e]
    /\ Cardinality(InFlight) = pool.global

TwoChain ==
    /\ pkgs["a"].build \o pkgs["a"].runtime = <<"b">>
    /\ pkgs["b"].build \o pkgs["b"].runtime = <<>>

----------------------------------------------------------------------------
(* The `db` queries: what --limit keeps and the order of the output *)

\* the rows of out are n rows of largest key among rows (all of them when
\* there are fewer), each once, printed with non-decreasing keys
NewestOldestFirst(out, rows, n) ==
    LET shown == Range(out)
    IN  /\ shown \subseteq rows
        /\ Cardinality(shown) = Len(out)
        /\ Len(out) = IF n < Cardinality(rows) THEN n ELSE Cardinality(rows)
        /\ \A r \in shown : \A q \in rows \ shown : r.id >= q.id
        /\ \A i, k \in 1..Len(out) : i < k => out[i].id <= out[k].id

\* the submits the filter of `db submits` asks for
MatchingSubmits(f) ==
    IF f.with THEN {s \in SubmitIds : \E j \in JobsOf(s) : db.jobs[j].pkg = f.pkg}
    ELSE {s \in SubmitIds : f.pkg # "" => db.submits[s].pkg = f.pkg}

\* the joined rows the last command had to choose from
MatchingRows ==
    CASE lastQ.cmd = "artifacts" -> ArtifactRows(lastQ.filter.id)
      [] lastQ.cmd = "submits" -> SubmitRows(MatchingSubmits(lastQ.filter))
      [] lastQ.cmd = "jobs" -> JobRows(lastQ.filter.id, lastQ.filter.pkg)
      [] lastQ.cmd = "releases" -> ReleaseRows(lastQ.filter.pkg)
      [] OTHER -> {}

Printed == [i \in 1..Len(lastQ.out) |-> Row(lastQ.out[i].id, lastQ.out[i].sub)]

\* C22: `db artifacts`, `db submits` and `db jobs` print the N matching rows
\* of largest primary key (all of them when fewer match), in ascending order
\* of the key, whatever the filters are, --with_pkg included
C22_NewestRowsOldestFirst ==
    (lastQ.cmd \in {"artifacts", "submits", "jobs"} /\ lastQ.st = "ok")
        => NewestOldestFirst(Printed, MatchingRows, lastQ.limit.v)

\* C23: `db releases` prints the newest N matching releases in ascending
\* order of the release key
C23_ReleasesOldestFirst ==
    (lastQ.cmd = "releases" /\ lastQ.st = "ok")
        => NewestOldestFirst(Printed, MatchingRows, lastQ.limit.v)

\* the value get_limit works on: --limit when given, the default otherwise
Effective == IF lastQ.cli # NoArg THEN lastQ.cli ELSE lastQ.dflt

\* C24: get_limit takes --limit when given and the configured default
\* otherwise; 0 stands for no bound (the largest i64), another value that
\* fits an i64 is returned as it is, so that the limit is at least 1, and a
\* value that does not fit is an error, never a wrapped number
C24_GetLimit ==
    lastQ.cmd \in {"artifacts", "submits", "jobs", "releases"} =>
        /\ Effective = 0 => lastQ.limit = [ok |-> TRUE, v |-> I64Max]
        /\ (Effective # 0 /\ Effective <= I64Max)
              => lastQ.limit = [ok |-> TRUE, v |-> Effective]
        /\ Effective > I64Max => (~lastQ.limit.ok /\ lastQ.st = "err")
        /\ lastQ.limit.ok => lastQ.limit.v >= 1

\* no --limit, and a configured default that does not fit: an error
C24_Witness ==
    /\ lastQ.cmd = "jobs"
    /\ lastQ.cli = NoArg
    /\ lastQ.dflt > I64Max
    /\ lastQ.st = "err"

----------------------------------------------------------------------------
(* The verdict of a job log, as the `db` commands compute and report it *)

\* the verdict `db job` printed for the job it was asked about, "error" when
\* the command ended with the parse error instead
Reported ==
    IF lastQ.st = "ok" THEN lastQ.out[1].ok ELSE "error"

HasMarker(log, m) == \E i \in 1..Len(log) : log[i] = m

Unparsable(j) == ~from_str(db.jobs[j].log).ok

\* C25: every job log has exactly one verdict: Success iff it has an OK
\* marker and no ERR marker, Errored iff it has an ERR marker, Unknown
\* otherwise; and the three counts of `db submit` add up to the number of jobs
C25_VerdictTotal ==
    /\ lastQ.cmd = "job" =>
          LET log == db.jobs[lastQ.filter.id].log
          IN  /\ Reported \in {"Success", "Errored", "Unknown"}
              /\ Reported = "Success"
                    <=> (HasMarker(log, "ok") /\ ~HasMarker(log, "err"))
              /\ Reported = "Errored" <=> HasMarker(log, "err")
              /\ Reported = "Unknown"
                    <=> (~HasMarker(log, "ok") /\ ~HasMarker(log, "err"))
    /\ (lastQ.cmd = "submit" /\ lastQ.st = "ok")
          => lastQ.counts.succ + lastQ.counts.unkn + lastQ.counts.err
                = lastQ.counts.jobs
    /\ (lastQ.cmd = "submit" /\ lastQ.st = "ok")
          => lastQ.counts.jobs = Cardinality(JobsOf(lastQ.filter.id))

\* C26: a log that cannot be parsed makes its job Unknown and no more:
\* `db submit`, `db jobs` and `db job` complete and report the job as Unknown
C26_ParseErrorDegrades ==
    /\ lastQ.cmd = "submit" =>
          /\ lastQ.st = "ok"
          /\ lastQ.counts.unkn
                >= Cardinality({j \in JobsOf(lastQ.filter.id) : Unparsable(j)})
    /\ lastQ.cmd = "jobs" =>
          /\ lastQ.st = "ok"
          /\ \A i \in 1..Len(lastQ.out) :
                Unparsable(lastQ.out[i].id) => lastQ.out[i].ok = "?"
    /\ lastQ.cmd = "job" =>
          /\ lastQ.st = "ok"
          /\ Unparsable(lastQ.filter.id) => lastQ.out[1].ok = "Unknown"

----------------------------------------------------------------------------
(* Tree::add_package: what an error leaves behind *)

\* C27: when add_package returns an error (a duplicate was found, or the
\* dependencies of a package of the closure could not be read), the tree is
\* the tree it was before the call
C27_ErrorLeavesTreeUnchanged ==
    last.st \in {"duplicate", "deperror"} => tree = last.before

\* the call failed below its own package, on a tree that held packages
C27_Witness ==
    /\ last.st \in {"duplicate", "deperror"}
    /\ get_all_dependencies(last.p).ok
    /\ \E i \in 1..Len(get_all_dependencies(last.p).deps) :
          LET d == get_all_dependencies(last.p).deps[i]
              pack == find_with_version_constraint(d[1], d[2])
          IN  /\ pack # <<>>
              /\ ~get_all_dependencies(pack[1]).ok
    /\ tree # EmptyTree
    /\ tree = last.before

----------------------------------------------------------------------------
(* `endpoint ping` and `endpoint containers prune` *)

\* C28: every selected endpoint is pinged one ping at a time, at most n_pings
\* times and never again after a failed ping; the command returns an error
\* iff a ping that was issued failed, and returns Ok only when every selected
\* endpoint has answered n_pings pings
C28_PingDiscipline ==
    ecmd.cmd = "ping" =>
        /\ \A e \in Endpoints :
              /\ ecmd.issued[e] - ecmd.answered[e] - ecmd.failed[e] \in {0, 1}
              /\ ecmd.issued[e] <= ecmd.n
              /\ e \notin ecmd.sel => ecmd.issued[e] = 0
              /\ ecmd.failed[e] > 0 =>
                    /\ ecmd.failed[e] = 1
                    /\ ecmd.issued[e] = ecmd.answered[e] + 1
        /\ ecmd.st = "err" <=> \E e \in Endpoints : ecmd.failed[e] > 0
        /\ ecmd.st = "ok" => \A e \in ecmd.sel : ecmd.answered[e] = ecmd.n

\* C29: the containers `endpoint containers prune` deleted were listed as
\* exited, were created before older_than and after newer_than (where
\* given), and the prompt was answered with yes; no other container is gone
C29_PruneOnlyExited ==
    ecmd.cmd = "prune" =>
        /\ ecmd.answer # "yes" => ecmd.deleted = {}
        /\ \A c \in ContainerIds :
              c \notin ecmd.deleted => (ends[c].alive \/ c \notin ecmd.listed)
        /\ \A c \in ecmd.deleted :
              /\ ~ends[c].alive
              /\ c \in ecmd.listed
              /\ ends[c].ep \in ecmd.sel
              /\ ends[c].state = "exited"
              /\ ecmd.older # NoDate => ends[c].created < ecmd.older
              /\ ecmd.newer # NoDate => ends[c].created > ecmd.newer

\* both dates given: an exited container between them was deleted and a
\* running one of the same endpoint and of the same age was left alone
C29_Witness ==
    /\ ecmd.cmd = "prune"
    /\ ecmd.st = "ok"
    /\ ecmd.older # NoDate
    /\ ecmd.newer # NoDate
    /\ \E c \in ecmd.deleted : \E d \in ContainerIds :
          /\ ends[d].alive
          /\ d \in ecmd.listed
          /\ ends[d].state = "running"
          /\ ends[d].ep = ends[c].ep
          /\ ends[d].created = ends[c].created

----------------------------------------------------------------------------
(* `db jobs`: one line per job *)

\* the n largest of ids
Newest(ids, n) == {x \in ids : Cardinality({y \in ids : y > x}) < n}

\* C30: `db jobs` lists every matching job exactly once: with the limit N it
\* shows the N newest matching jobs (all of them when fewer match), whether a
\* job has no artifact, one, or several
C30_JobsListedOnce ==
    (lastQ.cmd = "jobs" /\ lastQ.st = "ok") =>
        /\ \A i, k \in 1..Len(lastQ.out) :
              i # k => lastQ.out[i].id # lastQ.out[k].id
        /\ {lastQ.out[i].id : i \in 1..Len(lastQ.out)}
              = Newest(MatchingJobs(lastQ.filter.id, lastQ.filter.pkg), lastQ.limit.v)

====
